---- MODULE Spec2Model ----
(***************************************************************************)
(* MicMaxer2: the device-monitoring and volume-enforcement core.           *)
(*                                                                         *)
(* The model follows main.go (startup, the per-device click handlers, the  *)
(* periodic enforcer, onExit) and the darwin audio layer (the property     *)
(* listener, goVolumeChangeCallback, setSystemInputLevel, the preference   *)
(* store).  Each goroutine is a process with a program counter.  A         *)
(* critical section of state.mu that makes no external call is one atomic  *)
(* step guarded by the lock being available; loadAndApplyDeviceStates,     *)
(* which calls the audio layer while it holds the lock, holds it across    *)
(* steps.  Volumes are percentages (the scalar 1.0 is 100).                *)
(***************************************************************************)
EXTENDS Integers, Sequences, FiniteSets, TLC

\* ---------------------------------------------------------------- bounds
MaxToggles == 3      \* clicks handled, all menu items together
MaxTicks   == 2      \* ticker firings
MaxDrifts  == 1      \* external changes of the input volume or mute state

\* ------------------------------------------------------------- constants
TargetVolumeLevel == 100          \* targetVolumeLevel = 1.0
CallbackResetLevel == 100         \* the literal 1.0 of goVolumeChangeCallback

\* --------------------------------------------------------- the environment
\* The capture devices malgo reports, in the order reported.
InputDevices == <<"A", "B">>
\* Volume settings the default input device can be observed at.
Levels == {50, 100}
\* The preference "CheckedAudioDevices" as found at process start: absent,
\* not an array, or an array of ids.
PrefAbsent == [present |-> FALSE, isArray |-> FALSE, ids |-> <<>>]
PrefNotArray == [present |-> TRUE, isArray |-> FALSE, ids |-> <<>>]
PrefArray(ids) == [present |-> TRUE, isArray |-> TRUE, ids |-> ids]
InitialPrefs ==
  {PrefAbsent, PrefNotArray, PrefArray(<<"B">>), PrefArray(<<"X", "A">>)}

VARIABLES
  audioInputDevices,   \* state.audioInputDevices (sequence of device ids)
  deviceStates,        \* state.deviceStates (a function on the keys present)
  mu,                  \* state.mu: [writer, readers]
  enforcerCancel,      \* state.enforcerCancel: "nil" or "set"
  ctxDone,             \* the enforcer's context has been cancelled
  prefs,               \* the stored preference
  volume, muted,       \* the default input device's volume and mute state
  listeners,           \* the property listeners registered: "volume", "mute"
  pending,             \* property notifications not yet delivered
  mainPC,              \* position of the main goroutine
  savedDeviceIDs,      \* loadAndApplyDeviceStates: the ids loaded
  restoreIdx,          \* loadAndApplyDeviceStates: next index of the loop
  restoreSets,         \* Set calls issued by loadAndApplyDeviceStates
  uiIdx,               \* onReady: next index of the device loop
  click,               \* per menu item: the click-handler goroutine
  toggles,             \* per menu item: flips performed so far
  enforcer,            \* the enforcer goroutine
  ticks,               \* ticker firings handled so far
  cb,                  \* the invocation of the property listener in progress
  corrective,          \* corrective goroutines spawned and not yet run
  lastSet,             \* the last call of setSystemInputLevel
  drifts,              \* external changes so far
  lastSaved            \* the ids of the last saveCheckedDevices call

vars == <<audioInputDevices, deviceStates, mu, enforcerCancel, ctxDone, prefs,
          volume, muted, listeners, pending, mainPC, savedDeviceIDs,
          restoreIdx, restoreSets, uiIdx, click, toggles, enforcer, ticks, cb,
          corrective, lastSet, drifts, lastSaved>>

\* ------------------------------------------------------------- helpers
Range(s) == {s[i] : i \in 1..Len(s)}

\* All orders in which a Go map iteration can visit the ids of S.
Perms(S) ==
  {s \in [1..Cardinality(S) -> S] : \A i, j \in 1..Cardinality(S) :
                                       i # j => s[i] # s[j]}

\* state.deviceStates[id]: a missing key reads as false.
Get(states, id) == IF id \in DOMAIN states THEN states[id] ELSE FALSE

\* The ids a loop "for id, checked := range state.deviceStates" keeps under
\* "if checked".
CheckedEveryKey(states) == DOMAIN states
Checked(states) == {id \in DOMAIN states : states[id]}

\* state.deviceStates[id] = v
Store(states, id, v) ==
  [k \in DOMAIN states \cup {id} |-> IF k = id THEN v ELSE states[k]]

\* state.deviceStates[id] = !state.deviceStates[id]
FlippedDeletesUnchecked(states, id) ==
  IF Get(states, id) THEN [k \in DOMAIN states \ {id} |-> states[k]]
                     ELSE Store(states, id, TRUE)
FlippedSetsTrue(states, id) == Store(states, id, TRUE)
FlippedClobbers(states, id) ==
  [k \in DOMAIN states \cup {id} |-> IF k = id THEN ~Get(states, id) ELSE FALSE]
Flipped(states, id) == Store(states, id, ~Get(states, id))

\* hasSelectedDevice: some entry is true.
HasSelectedDevice(states) == \E id \in DOMAIN states : states[id]

\* state.mu
Unlocked == [writer |-> "none", readers |-> {}]
CanLock == mu.writer = "none" /\ mu.readers = {}
CanRLock == mu.writer = "none"

\* setSystemInputLevel clamps the level to 0.0 .. 1.0.
Clamp(level) == IF level < 0 THEN 0 ELSE IF level > 100 THEN 100 ELSE level

NoSet == [by |-> "none", dev |-> "", level |-> 0]

\* setSystemInputLevel(deviceID, level) called by `by`; ok is the outcome of
\* the Core Audio call.  The empty id is the default input device, whose
\* volume property the listener watches.  main.go passes the level alone,
\* never a device id: its calls are calls for the default input device.
SetSystemInputLevel(by, deviceID, level, ok) ==
  /\ lastSet' = [by |-> by, dev |-> deviceID, level |-> Clamp(level)]
  /\ IF ok /\ deviceID = ""
       THEN /\ volume' = Clamp(level)
            /\ pending' = IF "volume" \in listeners /\ volume # Clamp(level)
                            THEN pending + 1 ELSE pending
       ELSE UNCHANGED <<volume, pending>>

\* Clicks handled so far, all menu items together.
TotalToggles == toggles["A"] + toggles["B"]

IdleClick == [pc |-> "none", wasUnchecked |-> FALSE, newState |-> FALSE,
              checkedDeviceIDs |-> <<>>, saves |-> 0, sets |-> 0]
IdleEnforcer == [pc |-> "none", checkedDevices |-> {}, todo |-> {},
                 attempted |-> {}, failed |-> {}]
\* pc: "none" before the first callback, "go" inside goVolumeChangeCallback,
\* "returned" after it.
IdleCallback == [pc |-> "none", volume |-> 0, muted |-> FALSE,
                 selected |-> FALSE, spawned |-> 0]

\* No saveCheckedDevices call has been made yet.
NeverSaved == [any |-> FALSE, ids |-> {}]

\* ------------------------------------------------------------------ Init
Init ==
  /\ audioInputDevices = <<>>
  /\ deviceStates = <<>>
  /\ mu = Unlocked
  /\ enforcerCancel = "nil"
  /\ ctxDone = FALSE
  /\ prefs \in InitialPrefs
  /\ volume \in Levels
  /\ muted = FALSE
  /\ listeners = {}
  /\ pending = 0
  /\ mainPC = "scan"
  /\ savedDeviceIDs = <<>>
  /\ restoreIdx = 1
  /\ restoreSets = 0
  /\ uiIdx = 1
  /\ click = [d \in Range(InputDevices) |-> IdleClick]
  /\ toggles = [d \in Range(InputDevices) |-> 0]
  /\ enforcer = IdleEnforcer
  /\ ticks = 0
  /\ cb = IdleCallback
  /\ corrective = 0
  /\ lastSet = NoSet
  /\ drifts = 0
  /\ lastSaved = NeverSaved

\* ------------------------------------------------------------- startup
\* main: scanAudioInputDevices.  A failure is logged and startup goes on
\* with no device.
Scan ==
  /\ mainPC = "scan"
  /\ CanLock
  /\ \E ok \in BOOLEAN :
       audioInputDevices' = IF ok THEN InputDevices ELSE <<>>
  /\ mainPC' = "load"
  /\ UNCHANGED <<deviceStates, mu, enforcerCancel, ctxDone, prefs, volume,
                 muted, listeners, pending, savedDeviceIDs, restoreIdx,
                 restoreSets, uiIdx, click, toggles, enforcer, ticks, cb,
                 corrective, lastSet, drifts, lastSaved>>

\* loadCheckedDevices: the number of ids loaded, -1 when the stored value is
\* not an array.
LoadCount(p) ==
  IF ~p.present THEN 0 ELSE IF ~p.isArray THEN -1 ELSE Len(p.ids)

\* Where main goes on after loadCheckedDevices: an error (a negative count)
\* and an empty list are logged and loadAndApplyDeviceStates returns to
\* main, which starts the listener; otherwise the restore loop runs.
AfterLoadSkipsRestore(count) == "listener"
AfterLoadFatal(count) ==
  IF count < 0 THEN "exited" ELSE IF count = 0 THEN "listener" ELSE "restore"
AfterLoad(count) == IF count <= 0 THEN "listener" ELSE "restore"

\* loadAndApplyDeviceStates up to state.mu.Lock(): an error or an empty list
\* returns at once, otherwise the write lock is taken for the loop.
Load ==
  /\ mainPC = "load"
  /\ mainPC' = AfterLoad(LoadCount(prefs))
  /\ IF LoadCount(prefs) <= 0
       THEN UNCHANGED <<savedDeviceIDs, mu>>
       ELSE /\ CanLock
            /\ savedDeviceIDs' = prefs.ids
            /\ mu' = [mu EXCEPT !.writer = "main"]
  /\ UNCHANGED <<audioInputDevices, deviceStates, enforcerCancel, ctxDone,
                 prefs, volume, muted, listeners, pending, restoreIdx,
                 restoreSets, uiIdx, click, toggles, enforcer, ticks, cb,
                 corrective, lastSet, drifts, lastSaved>>

\* The inner loop of loadAndApplyDeviceStates: the saved id is the id of
\* some device of the registry.
DeviceExistsAlways(devices, savedID) == TRUE
DeviceExists(devices, savedID) == savedID \in Range(devices)

\* One iteration of the loop over savedDeviceIDs, the write lock held: an id
\* of the registry is marked checked and the volume is set, any other id is
\* logged and skipped.
RestoreStep ==
  /\ mainPC = "restore"
  /\ mu.writer = "main"
  /\ restoreIdx <= Len(savedDeviceIDs)
  /\ LET savedID == savedDeviceIDs[restoreIdx] IN
       IF DeviceExists(audioInputDevices, savedID)
         THEN /\ deviceStates' = Store(deviceStates, savedID, TRUE)
              /\ \E ok \in BOOLEAN :
                   SetSystemInputLevel("restore", "", TargetVolumeLevel, ok)
              /\ restoreSets' = restoreSets + 1
         ELSE UNCHANGED <<deviceStates, lastSet, volume, pending, restoreSets>>
  /\ restoreIdx' = restoreIdx + 1
  /\ UNCHANGED <<audioInputDevices, mu, enforcerCancel, ctxDone, prefs, muted,
                 listeners, mainPC, savedDeviceIDs, uiIdx, click, toggles,
                 enforcer, ticks, cb, corrective, drifts, lastSaved>>

\* The loop is over: the deferred Unlock runs.
RestoreDone ==
  /\ mainPC = "restore"
  /\ mu.writer = "main"
  /\ restoreIdx > Len(savedDeviceIDs)
  /\ mu' = [mu EXCEPT !.writer = "none"]
  /\ mainPC' = "listener"
  /\ UNCHANGED <<audioInputDevices, deviceStates, enforcerCancel, ctxDone,
                 prefs, volume, muted, listeners, pending, savedDeviceIDs,
                 restoreIdx, restoreSets, uiIdx, click, toggles, enforcer,
                 ticks, cb, corrective, lastSet, drifts, lastSaved>>

\* registerVolumeChangeListener, first half: look the default input device
\* up (-1 on failure) and add the volume listener (-2 on failure).
RegisterVolumeListener ==
  /\ mainPC = "listener"
  /\ \E result \in {0, -1, -2} :
       IF result = 0
         THEN /\ listeners' = listeners \cup {"volume"}
              /\ mainPC' = "listener_mute"
         ELSE /\ UNCHANGED listeners
              /\ mainPC' = "enforcer"
  /\ UNCHANGED <<audioInputDevices, deviceStates, mu, enforcerCancel, ctxDone,
                 prefs, volume, muted, pending, savedDeviceIDs, restoreIdx,
                 restoreSets, uiIdx, click, toggles, enforcer, ticks, cb,
                 corrective, lastSet, drifts, lastSaved>>

\* registerVolumeChangeListener, second half: add the mute listener; on
\* failure AudioObjectRemovePropertyListener is called for the volume
\* listener and -3 is returned.  The status of the removal is not looked
\* at: removed is whether it took effect.
RegisterMuteListener ==
  /\ mainPC = "listener_mute"
  /\ \E result \in {0, -3}, removed \in BOOLEAN :
       listeners' = IF result = 0 THEN listeners \cup {"mute"}
                    ELSE IF removed THEN listeners \ {"volume"}
                    ELSE listeners
  /\ mainPC' = "enforcer"
  /\ UNCHANGED <<audioInputDevices, deviceStates, mu, enforcerCancel, ctxDone,
                 prefs, volume, muted, pending, savedDeviceIDs, restoreIdx,
                 restoreSets, uiIdx, click, toggles, enforcer, ticks, cb,
                 corrective, lastSet, drifts, lastSaved>>

\* startPeriodicVolumeEnforcer: store the cancel function under the write
\* lock and start the goroutine.
StartPeriodicVolumeEnforcer ==
  /\ mainPC = "enforcer"
  /\ CanLock
  /\ enforcerCancel' = "set"
  /\ enforcer' = [enforcer EXCEPT !.pc = "select"]
  /\ mainPC' = "ui"
  /\ UNCHANGED <<audioInputDevices, deviceStates, mu, ctxDone, prefs, volume,
                 muted, listeners, pending, savedDeviceIDs, restoreIdx,
                 restoreSets, uiIdx, click, toggles, ticks, cb, corrective,
                 lastSet, drifts, lastSaved>>

\* "if _, exists := state.deviceStates[deviceID]; !exists { ... = false }":
\* an entry that exists is left as it is.
InitEntryAlwaysFalse(states, deviceID) == Store(states, deviceID, FALSE)
InitEntry(states, deviceID) ==
  IF deviceID \in DOMAIN states THEN states
                                ELSE Store(states, deviceID, FALSE)

\* onReady, one iteration of the device loop: create the entry as false when
\* it is missing, add the menu item and start its click handler.
OnReadyDevice ==
  /\ mainPC = "ui"
  /\ uiIdx <= Len(audioInputDevices)
  /\ CanLock
  /\ LET deviceID == audioInputDevices[uiIdx] IN
       /\ deviceStates' = InitEntry(deviceStates, deviceID)
       /\ click' = [click EXCEPT ![deviceID].pc = "wait"]
  /\ uiIdx' = uiIdx + 1
  /\ UNCHANGED <<audioInputDevices, mu, enforcerCancel, ctxDone, prefs, volume,
                 muted, listeners, pending, mainPC, savedDeviceIDs, restoreIdx,
                 restoreSets, toggles, enforcer, ticks, cb, corrective,
                 lastSet, drifts, lastSaved>>

\* onReady returns: the menu is complete.
OnReadyDone ==
  /\ mainPC = "ui"
  /\ uiIdx > Len(audioInputDevices)
  /\ mainPC' = "run"
  /\ UNCHANGED <<audioInputDevices, deviceStates, mu, enforcerCancel, ctxDone,
                 prefs, volume, muted, listeners, pending, savedDeviceIDs,
                 restoreIdx, restoreSets, uiIdx, click, toggles, enforcer,
                 ticks, cb, corrective, lastSet, drifts, lastSaved>>

\* ------------------------------------------------- click handlers
\* The handler of device id takes a click from item.ClickedCh and flips the
\* entry under the write lock.
Toggle(id) ==
  /\ click[id].pc = "wait"
  /\ mainPC \in {"ui", "run"}
  /\ TotalToggles < MaxToggles
  /\ CanLock
  /\ deviceStates' = Flipped(deviceStates, id)
  /\ click' = [click EXCEPT ![id] =
       [pc |-> "save",
        wasUnchecked |-> ~Get(deviceStates, id),
        newState |-> Get(deviceStates', id),
        checkedDeviceIDs |-> <<>>, saves |-> 0, sets |-> 0]]
  /\ toggles' = [toggles EXCEPT ![id] = @ + 1]
  /\ UNCHANGED <<audioInputDevices, mu, enforcerCancel, ctxDone, prefs, volume,
                 muted, listeners, pending, mainPC, savedDeviceIDs, restoreIdx,
                 restoreSets, uiIdx, enforcer, ticks, cb, corrective, lastSet,
                 drifts, lastSaved>>

\* saveDeviceStates, the part under the read lock: collect the checked ids
\* in map-iteration order.
SaveCollect(id) ==
  /\ click[id].pc = "save"
  /\ CanRLock
  /\ \E ids \in Perms(Checked(deviceStates)) :
       click' = [click EXCEPT ![id].checkedDeviceIDs = ids, ![id].pc = "write"]
  /\ UNCHANGED <<audioInputDevices, deviceStates, mu, enforcerCancel, ctxDone,
                 prefs, volume, muted, listeners, pending, mainPC,
                 savedDeviceIDs, restoreIdx, restoreSets, uiIdx, toggles,
                 enforcer, ticks, cb, corrective, lastSet, drifts, lastSaved>>

\* C saveCheckedDevices: no id removes the preference, otherwise the array
\* of ids replaces it.
SavedPrefsDropsFirst(deviceIDs) ==
  IF Len(deviceIDs) = 0 THEN PrefAbsent ELSE PrefArray(Tail(deviceIDs))
SavedPrefs(deviceIDs) ==
  IF Len(deviceIDs) = 0 THEN PrefAbsent ELSE PrefArray(deviceIDs)

\* The click handler's test "wasUnchecked && newState".
WentCheckedAlways(wasUnchecked, newState) == TRUE
WentChecked(wasUnchecked, newState) == wasUnchecked /\ newState

\* saveDeviceStates, the write: saveCheckedDevices(checkedDeviceIDs), which
\* reports no outcome, and saveDeviceStates returns.  The handler goes on to
\* the volume calls only when the device went from unchecked to checked.
SaveWrite(id) ==
  /\ click[id].pc = "write"
  /\ prefs' = SavedPrefs(click[id].checkedDeviceIDs)
  /\ lastSaved' = [any |-> TRUE, ids |-> Range(click[id].checkedDeviceIDs)]
  /\ click' = [click EXCEPT
       ![id].saves = @ + 1,
       ![id].checkedDeviceIDs = <<>>,
       ![id].pc = IF WentChecked(click[id].wasUnchecked, click[id].newState)
                    THEN "get" ELSE "wait"]
  /\ UNCHANGED <<audioInputDevices, deviceStates, mu, enforcerCancel, ctxDone,
                 volume, muted, listeners, pending, mainPC, savedDeviceIDs,
                 restoreIdx, restoreSets, uiIdx, toggles, enforcer, ticks, cb,
                 corrective, lastSet, drifts>>

\* The store after a device call of the click handler returned: an error is
\* only logged, the flip stays.
AfterDeviceCallReverts(states, id, ok) ==
  IF ok THEN states ELSE Flipped(states, id)
AfterDeviceCall(states, id, ok) == states

\* Unchecked to checked: getAudioInputLevel(id); an error is only logged.
ToggleGetLevel(id) ==
  /\ click[id].pc = "get"
  /\ \E ok \in BOOLEAN :
       /\ deviceStates' = AfterDeviceCall(deviceStates, id, ok)
       /\ click' = [click EXCEPT ![id].pc = "set"]
  /\ UNCHANGED <<audioInputDevices, mu, enforcerCancel, ctxDone,
                 prefs, volume, muted, listeners, pending, mainPC,
                 savedDeviceIDs, restoreIdx, restoreSets, uiIdx, toggles,
                 enforcer, ticks, cb, corrective, lastSet, drifts, lastSaved>>

\* Unchecked to checked: setSystemInputLevel(targetVolumeLevel); an error is
\* only logged.  The handler then waits for the next click.
ToggleSetLevel(id) ==
  /\ click[id].pc = "set"
  /\ \E ok \in BOOLEAN :
       /\ SetSystemInputLevel("toggle", "", TargetVolumeLevel, ok)
       /\ deviceStates' = AfterDeviceCall(deviceStates, id, ok)
       /\ click' = [click EXCEPT ![id].sets = @ + 1, ![id].pc = "wait"]
  /\ UNCHANGED <<audioInputDevices, mu, enforcerCancel, ctxDone,
                 prefs, muted, listeners, mainPC, savedDeviceIDs, restoreIdx,
                 restoreSets, uiIdx, toggles, enforcer, ticks, cb, corrective,
                 drifts, lastSaved>>

\* ------------------------------------------------------- the enforcer
\* The enforcer goroutine is at its select, where alone it takes a tick:
\* after "case <-ctx.Done()" it has returned and takes nothing any more.
CanTickFirstOnly(e) == e.pc = "select" /\ e.attempted = {}
CanTick(e) == e.pc = "select"

\* The goroutine looks at ctx.Done() only at its select, between two ticks.
CanStopMidTick(e, done) == e.pc \in {"select", "apply"} /\ done
CanStop(e, done) == e.pc = "select" /\ done

\* state.mu after the copy of enforceVolumeSettings: RUnlock is called
\* before the loop over the copy, so the devices are set with the lock free.
AfterSnapshotKeepsRLock(m) == [m EXCEPT !.readers = @ \cup {"enforcer"}]
AfterSnapshot(m) == m

\* The select of the enforcer goroutine takes ticker.C, and
\* enforceVolumeSettings copies the checked devices under the read lock.  A
\* tick with nothing checked is over at once.
EnforcerTick ==
  /\ CanTick(enforcer)
  /\ ticks < MaxTicks
  /\ CanRLock
  /\ LET checkedDevices == Checked(deviceStates) IN
       enforcer' = [pc |-> IF checkedDevices = {} THEN "select" ELSE "apply",
                    checkedDevices |-> checkedDevices,
                    todo |-> checkedDevices,
                    attempted |-> {}, failed |-> {}]
  /\ ticks' = ticks + 1
  /\ mu' = AfterSnapshot(mu)
  /\ UNCHANGED <<audioInputDevices, deviceStates, enforcerCancel, ctxDone,
                 prefs, volume, muted, listeners, pending, mainPC,
                 savedDeviceIDs, restoreIdx, restoreSets, uiIdx, click,
                 toggles, cb, corrective, lastSet, drifts, lastSaved>>

\* The devices left to the loop of enforceVolumeSettings after the call for
\* id returned: the loop goes on whatever the outcome.
RemainingStopsOnError(todo, id, ok) == IF ok THEN todo \ {id} ELSE {}
Remaining(todo, id, ok) == todo \ {id}

\* enforceVolumeSettings, one iteration of the loop over the copy:
\* setSystemInputLevel(targetVolumeLevel); an error is only logged.
EnforcerSet ==
  /\ enforcer.pc = "apply"
  /\ \E id \in enforcer.todo, ok \in BOOLEAN :
       /\ SetSystemInputLevel("tick", "", TargetVolumeLevel, ok)
       /\ enforcer' = [enforcer EXCEPT
            !.todo = Remaining(@, id, ok),
            !.attempted = @ \cup {id},
            !.failed = IF ok THEN @ ELSE @ \cup {id},
            !.pc = IF Remaining(enforcer.todo, id, ok) = {}
                     THEN "select" ELSE "apply"]
  /\ UNCHANGED <<audioInputDevices, deviceStates, mu, enforcerCancel, ctxDone,
                 prefs, muted, listeners, mainPC, savedDeviceIDs, restoreIdx,
                 restoreSets, uiIdx, click, toggles, ticks, cb, corrective,
                 drifts, lastSaved>>

\* The select of the enforcer goroutine takes ctx.Done(): the goroutine ends.
EnforcerStop ==
  /\ CanStop(enforcer, ctxDone)
  /\ enforcer' = [enforcer EXCEPT !.pc = "stopped"]
  /\ UNCHANGED <<audioInputDevices, deviceStates, mu, enforcerCancel, ctxDone,
                 prefs, volume, muted, listeners, pending, mainPC,
                 savedDeviceIDs, restoreIdx, restoreSets, uiIdx, click,
                 toggles, ticks, cb, corrective, lastSet, drifts, lastSaved>>

\* ------------------------------------------------ change notifications
\* Something outside the program changes the volume or the mute state of the
\* default input device, one property at a time; the listener registered
\* for the property is notified.
Drift ==
  /\ drifts < MaxDrifts
  /\ \E v \in Levels, m \in BOOLEAN :
       /\ (v # volume) # (m # muted)
       /\ volume' = v
       /\ muted' = m
       /\ pending' = pending
            + (IF v # volume /\ "volume" \in listeners THEN 1 ELSE 0)
            + (IF m # muted /\ "mute" \in listeners THEN 1 ELSE 0)
  /\ drifts' = drifts + 1
  /\ UNCHANGED <<audioInputDevices, deviceStates, mu, enforcerCancel, ctxDone,
                 prefs, listeners, mainPC, savedDeviceIDs, restoreIdx,
                 restoreSets, uiIdx, click, toggles, enforcer, ticks, cb,
                 corrective, lastSet, lastSaved>>

\* volumeChangeListener: under listenerMutex, read the volume and the mute
\* state; goVolumeChangeCallback is entered when the volume could be read.
VolumeChangeListener ==
  /\ pending > 0
  /\ cb.pc # "go"
  /\ pending' = pending - 1
  /\ \E statusOK \in BOOLEAN :
       cb' = IF statusOK
               THEN [pc |-> "go", volume |-> volume, muted |-> muted,
                     selected |-> FALSE, spawned |-> 0]
               ELSE cb
  /\ UNCHANGED <<audioInputDevices, deviceStates, mu, enforcerCancel, ctxDone,
                 prefs, volume, muted, listeners, mainPC, savedDeviceIDs,
                 restoreIdx, restoreSets, uiIdx, click, toggles, enforcer,
                 ticks, corrective, lastSet, drifts, lastSaved>>

\* The condition of goVolumeChangeCallback under which a reset is scheduled:
\* hasSelectedDevice() && volumeFloat < 1.0 && !isMuted.
ShouldResetAtTarget(selected, volumeFloat, isMuted) ==
  selected /\ volumeFloat <= 100 /\ ~isMuted
ShouldResetMuteInverted(selected, volumeFloat, isMuted) ==
  selected /\ volumeFloat < 100 /\ isMuted
ShouldResetIgnoresMute(selected, volumeFloat, isMuted) ==
  selected /\ volumeFloat < 100
ShouldResetIgnoresSelection(selected, volumeFloat, isMuted) ==
  volumeFloat < 100 /\ ~isMuted
ShouldReset(selected, volumeFloat, isMuted) ==
  selected /\ volumeFloat < 100 /\ ~isMuted

\* "go func() { setSystemInputLevel("", 1.0) }()": the reset goroutines
\* started and not yet run, after a callback that decided reset.  The
\* callback does not wait for the goroutine it starts.
SpawnRunsInline(n, reset) == n
Spawn(n, reset) == IF reset THEN n + 1 ELSE n

\* goVolumeChangeCallback: decide, start the reset goroutine when needed, and
\* return to the listener, which releases listenerMutex.
GoVolumeChangeCallback ==
  /\ cb.pc = "go"
  /\ CanRLock
  /\ LET selected == HasSelectedDevice(deviceStates)
         reset == ShouldReset(selected, cb.volume, cb.muted) IN
       /\ corrective' = Spawn(corrective, reset)
       /\ cb' = [cb EXCEPT !.pc = "returned", !.selected = selected,
                           !.spawned = IF reset THEN 1 ELSE 0]
  /\ UNCHANGED <<audioInputDevices, deviceStates, mu, enforcerCancel, ctxDone,
                 prefs, volume, muted, listeners, pending, mainPC,
                 savedDeviceIDs, restoreIdx, restoreSets, uiIdx, click,
                 toggles, enforcer, ticks, lastSet, drifts, lastSaved>>

\* A reset goroutine runs: setSystemInputLevel("", 1.0); an error is only
\* logged.
CorrectiveSet ==
  /\ corrective > 0
  /\ \E ok \in BOOLEAN :
       SetSystemInputLevel("corrective", "", CallbackResetLevel, ok)
  /\ corrective' = corrective - 1
  /\ UNCHANGED <<audioInputDevices, deviceStates, mu, enforcerCancel, ctxDone,
                 prefs, muted, listeners, mainPC, savedDeviceIDs, restoreIdx,
                 restoreSets, uiIdx, click, toggles, enforcer, ticks, cb,
                 drifts, lastSaved>>

\* ---------------------------------------------------------------- exit
\* "if state.enforcerCancel != nil { state.enforcerCancel() }": whether the
\* context is cancelled afterwards.  A cancel function does nothing after
\* its first call.
CancelledFlips(cancelFn, done) == IF cancelFn # "nil" THEN ~done ELSE done
Cancelled(cancelFn, done) == done \/ cancelFn # "nil"

\* onExit, first part: call the cancel function, if any, under the write
\* lock.
OnExitCancel ==
  /\ mainPC = "run"
  /\ CanLock
  /\ ctxDone' = Cancelled(enforcerCancel, ctxDone)
  /\ mainPC' = "stopping"
  /\ UNCHANGED <<audioInputDevices, deviceStates, mu, enforcerCancel, prefs,
                 volume, muted, listeners, pending, savedDeviceIDs, restoreIdx,
                 restoreSets, uiIdx, click, toggles, enforcer, ticks, cb,
                 corrective, lastSet, drifts, lastSaved>>

\* onExit, second part: stopVolumeChangeListener removes both listeners.
OnExitStopListener ==
  /\ mainPC = "stopping"
  /\ listeners' = {}
  /\ mainPC' = "exited"
  /\ UNCHANGED <<audioInputDevices, deviceStates, mu, enforcerCancel, ctxDone,
                 prefs, volume, muted, pending, savedDeviceIDs, restoreIdx,
                 restoreSets, uiIdx, click, toggles, enforcer, ticks, cb,
                 corrective, lastSet, drifts, lastSaved>>

\* The process has ended (systray.Run returned after onExit) and the
\* application is started again: the memory of the process is as at
\* construction, the stored preference and the device's settings are as the
\* last process left them.
Relaunch ==
  /\ mainPC = "exited"
  /\ audioInputDevices' = <<>>
  /\ deviceStates' = <<>>
  /\ mu' = Unlocked
  /\ enforcerCancel' = "nil"
  /\ ctxDone' = FALSE
  /\ listeners' = {}
  /\ pending' = 0
  /\ mainPC' = "scan"
  /\ savedDeviceIDs' = <<>>
  /\ restoreIdx' = 1
  /\ restoreSets' = 0
  /\ uiIdx' = 1
  /\ click' = [d \in Range(InputDevices) |-> IdleClick]
  /\ toggles' = [d \in Range(InputDevices) |-> 0]
  /\ enforcer' = IdleEnforcer
  /\ ticks' = 0
  /\ cb' = IdleCallback
  /\ corrective' = 0
  /\ lastSet' = NoSet
  /\ UNCHANGED <<prefs, volume, muted, drifts, lastSaved>>

\* ------------------------------------------------------ specifications
\* main up to the end of onReady.
Startup ==
  \/ Scan
  \/ Load
  \/ RestoreStep
  \/ RestoreDone
  \/ RegisterVolumeListener
  \/ RegisterMuteListener
  \/ StartPeriodicVolumeEnforcer
  \/ OnReadyDevice
  \/ OnReadyDone

\* The click-handler goroutines.
Clicks ==
  \/ \E id \in Range(InputDevices) : Toggle(id)
  \/ \E id \in Range(InputDevices) : SaveCollect(id)
  \/ \E id \in Range(InputDevices) : SaveWrite(id)
  \/ \E id \in Range(InputDevices) : ToggleGetLevel(id)
  \/ \E id \in Range(InputDevices) : ToggleSetLevel(id)

\* The enforcer goroutine.
Enforcer ==
  \/ EnforcerTick
  \/ EnforcerSet
  \/ EnforcerStop

\* The property listener, its callback and the reset goroutines.
Events ==
  \/ Drift
  \/ VolumeChangeListener
  \/ GoVolumeChangeCallback
  \/ CorrectiveSet

\* onExit.
Exit ==
  \/ OnExitCancel
  \/ OnExitStopListener

\* Startup and the click handlers: the store and the preference are written
\* by no other goroutine.
NextToggle == Startup \/ Clicks
SpecToggle == Init /\ [][NextToggle]_vars

\* Startup, the click handlers' flips and the change notifications.
NextEvents == Startup \/ Clicks \/ Events
SpecEvents == Init /\ [][NextEvents]_vars

\* Startup, the click handlers and the enforcer's ticks.
NextEnforcer == Startup \/ Clicks \/ EnforcerTick \/ EnforcerSet
SpecEnforcer == Init /\ [][NextEnforcer]_vars

\* Every external call made after startup stalls for ever: a click handler
\* flips and collects but its saveCheckedDevices never returns, a tick takes
\* its copy but its first setSystemInputLevel never returns, a reset
\* goroutine is started but its setSystemInputLevel never returns.
NextStalled ==
  \/ Startup
  \/ \E id \in Range(InputDevices) : Toggle(id)
  \/ \E id \in Range(InputDevices) : SaveCollect(id)
  \/ EnforcerTick
  \/ Drift
  \/ VolumeChangeListener
  \/ GoVolumeChangeCallback
SpecStalled == Init /\ [][NextStalled]_vars

\* Startup, the enforcer's ticks and the change notifications, nobody
\* clicking.  The ticker keeps firing and a call of setSystemInputLevel
\* made by a tick returns.
NextHealing == Startup \/ EnforcerTick \/ EnforcerSet \/ Events
SpecHealing ==
  /\ Init
  /\ [][NextHealing]_vars
  /\ WF_vars(EnforcerTick)
  /\ WF_vars(EnforcerSet)

\* Startup, the click handlers, the enforcer goroutine and onExit.
NextLifecycle == Startup \/ Clicks \/ Enforcer \/ Exit
SpecLifecycle == Init /\ [][NextLifecycle]_vars

\* Startup, the click handlers, onExit and the next start of the
\* application.
NextSessions == Startup \/ Clicks \/ Exit \/ Relaunch
SpecSessions == Init /\ [][NextSessions]_vars

\* The whole program.
Next == Startup \/ Clicks \/ Enforcer \/ Events \/ Exit \/ Relaunch
Spec == Init /\ [][Next]_vars

\* ---------------------------------------------------------- properties
\* The monitored set as the store holds it.
Monitored == {id \in DOMAIN deviceStates : deviceStates[id] = TRUE}

\* The ids loadAndApplyDeviceStates has marked checked so far.
RestoredIDs ==
  {savedDeviceIDs[i] : i \in 1..(restoreIdx - 1)} \cap Range(audioInputDevices)

Odd(n) == n % 2 = 1

\* The flag a device must have after its toggles so far: the flag the
\* restore left it with, flipped once per toggle.
ExpectedFlag(id) == Odd(toggles[id]) # (id \in RestoredIDs)

\* The ids of the stored preference.
PersistedIDs == IF prefs.present /\ prefs.isArray THEN Range(prefs.ids) ELSE {}

\* C1: after N toggles of a device its flag is (N is odd) when the device
\* started unchecked (an id with no entry reads as unchecked, so its first
\* toggle checks it), and (N is even) when the restore had checked it.
C1_ToggleParity ==
  \A id \in Range(InputDevices) :
    /\ id \notin RestoredIDs => Get(deviceStates, id) = Odd(toggles[id])
    /\ id \in RestoredIDs => Get(deviceStates, id) = ~Odd(toggles[id])
    /\ toggles[id] > 0 => id \in DOMAIN deviceStates

\* C1 witness: one device toggled once from unchecked and checked now, the
\* other toggled twice and unchecked again.
C1_Witness ==
  /\ toggles["A"] = 1 /\ "A" \notin RestoredIDs /\ "A" \in Monitored
  /\ toggles["B"] = 2 /\ "B" \notin RestoredIDs /\ "B" \notin Monitored

\* C2: with the handlers of several devices running at once, every flip
\* counts once, inverts the entry of its own device and leaves every other
\* entry as it was: no flip is lost or undone by another handler.
C2_NoLostUpdate ==
  [][\A id \in Range(InputDevices) :
       toggles'[id] # toggles[id] =>
         /\ toggles'[id] = toggles[id] + 1
         /\ Monitored' = (Monitored \ {id}) \cup ({id} \ Monitored)]_vars

\* C2 witness: both handlers are in the middle of handling a click and both
\* flips are in the store.
C2_Witness ==
  /\ click["A"].pc \in {"save", "write"}
  /\ click["B"].pc \in {"save", "write"}
  /\ toggles["A"] = 1 /\ toggles["B"] = 1
  /\ Monitored = {"A", "B"}

\* C3 (as claimed): whenever a handler's saveCheckedDevices returns, the
\* stored ids are exactly the monitored ids of the store.
C3_SaveMatchesStore ==
  [][\A id \in Range(InputDevices) :
       (click[id].pc = "write" /\ click'[id].pc # "write") =>
         PersistedIDs' = Monitored']_vars

\* C4: a handler that has finished a click has called setSystemInputLevel
\* once, with the target level, when the click checked the device, and not
\* at all when the click unchecked it; it never calls it more than once.
C4_SetOnlyWhenChecked ==
  /\ \A id \in Range(InputDevices) :
       /\ click[id].sets <= 1
       /\ (click[id].sets = 1) => id \in Monitored
       /\ (click[id].pc = "wait" /\ toggles[id] > 0) =>
            click[id].sets = (IF id \in Monitored THEN 1 ELSE 0)
  /\ lastSet.by = "toggle" => lastSet.level = TargetVolumeLevel

\* C4 witness: A was checked by its click and got its one Set; B was
\* unchecked by its click and got none.
C4_Witness ==
  /\ click["A"].pc = "wait" /\ toggles["A"] = 1
  /\ "A" \in Monitored /\ click["A"].sets = 1
  /\ click["B"].pc = "wait" /\ toggles["B"] = 2
  /\ "B" \notin Monitored /\ click["B"].sets = 0

\* C5: every click leads to one saveCheckedDevices call, in either
\* direction: none has been made while the handler is still before the
\* write, one after it.  The ids handed to the write were collected after
\* the flip: they hold the device exactly when the flip checked it.
C5_OneSaveAfterFlip ==
  \A id \in Range(InputDevices) :
    /\ click[id].pc \in {"save", "write"} => click[id].saves = 0
    /\ (click[id].pc \in {"get", "set", "wait"} /\ toggles[id] > 0) =>
         click[id].saves = 1
    /\ click[id].pc = "write" =>
         (id \in Range(click[id].checkedDeviceIDs) <=> ExpectedFlag(id))

\* C5 witness: a handler that unchecked its device is about to write ids
\* without it, and the other handler has made its one save after checking
\* its device.
C5_Witness ==
  /\ click["A"].pc = "write" /\ toggles["A"] = 2
  /\ "A" \notin Range(click["A"].checkedDeviceIDs)
  /\ click["B"].pc = "wait" /\ toggles["B"] = 1 /\ click["B"].saves = 1

\* C6: a callback for an unmuted volume below the target, reaching its
\* decision while some device is monitored, starts exactly one reset
\* goroutine; a reset goroutine calls setSystemInputLevel on the default
\* device ("") with the target level.
C6_DriftSchedulesOneReset ==
  [][/\ (/\ cb.pc = "go" /\ cb'.pc # "go"
         /\ ~cb.muted /\ cb.volume < TargetVolumeLevel
         /\ Monitored # {}) => corrective' = corrective + 1
     /\ corrective' < corrective =>
          /\ corrective' = corrective - 1
          /\ lastSet'.by = "corrective"
          /\ lastSet'.dev = ""
          /\ lastSet'.level = TargetVolumeLevel]_vars

\* C6 witness: the callback saw 50%, unmuted, with a device monitored and
\* started a reset, and the reset goroutine has made its call.
C6_Witness ==
  /\ cb.pc = "returned" /\ cb.volume = 50 /\ ~cb.muted /\ cb.selected
  /\ cb.spawned = 1
  /\ corrective = 0 /\ lastSet.by = "corrective"

\* C7: a callback for a muted device starts no reset goroutine, whatever
\* the volume and the monitored set.
C7_MutedNeverReset ==
  [][(cb.pc = "go" /\ cb'.pc # "go" /\ cb.muted) =>
       corrective' = corrective]_vars

\* C7 witness: the callback saw a muted device at 50% with a device
\* monitored and started nothing.
C7_Witness ==
  /\ cb.pc = "returned" /\ cb.muted /\ cb.volume = 50 /\ cb.selected
  /\ cb.spawned = 0 /\ corrective = 0

\* C8: a callback that reaches its decision while no device is monitored
\* starts no reset goroutine, also for an unmuted volume below the target.
C8_NoDeviceNoReset ==
  [][(cb.pc = "go" /\ cb'.pc # "go" /\ Monitored = {}) =>
       corrective' = corrective]_vars

\* C8 witness: the callback saw 50%, unmuted, with nothing monitored and
\* started nothing.
C8_Witness ==
  /\ cb.pc = "returned" /\ ~cb.muted /\ cb.volume = 50 /\ ~cb.selected
  /\ Monitored = {} /\ cb.spawned = 0 /\ corrective = 0

\* C9: a tick that finds no device checked is over with its snapshot: it
\* calls setSystemInputLevel for nothing and changes nothing but the
\* enforcer's own position; and every call the enforcer makes belongs to a
\* tick whose snapshot was not empty.
C9_EmptyTickNoEffect ==
  [][/\ (ticks' = ticks + 1 /\ Monitored = {}) =>
          /\ enforcer'.pc = "select"
          /\ enforcer'.checkedDevices = {}
          /\ enforcer'.attempted = {}
          /\ UNCHANGED <<audioInputDevices, deviceStates, mu, enforcerCancel,
                         ctxDone, prefs, volume, muted, listeners, pending,
                         mainPC, click, toggles, cb, corrective, lastSet>>
     /\ enforcer'.attempted # enforcer.attempted =>
          (enforcer'.attempted = {} \/ enforcer.checkedDevices # {})]_vars

\* C9 witness: the menu holds devices, none is checked, and a tick has run
\* over the empty snapshot after an earlier Set by a click handler.
C9_Witness ==
  /\ ticks > 0 /\ enforcer.pc = "select" /\ enforcer.checkedDevices = {}
  /\ Monitored = {} /\ toggles["A"] = 2 /\ lastSet.by = "toggle"

\* C10: in a tick every device of the snapshot is either attempted or still
\* to come, whatever the outcome of earlier calls; when the tick is over
\* every device of the snapshot has been attempted, and the enforcer is back
\* at its select.
C10_FailureIsolated ==
  /\ enforcer.attempted \cup enforcer.todo = enforcer.checkedDevices
  /\ enforcer.failed \subseteq enforcer.attempted
  /\ enforcer.pc \in {"none", "select"} => enforcer.todo = {}
  /\ enforcer.pc = "apply" => enforcer.todo # {}

\* C10 witness: a tick over two devices is over; the call failed for one of
\* them and the other was still attempted, its call succeeding.
C10_Witness ==
  /\ enforcer.pc = "select"
  /\ enforcer.checkedDevices = {"A", "B"}
  /\ enforcer.attempted = {"A", "B"}
  /\ Cardinality(enforcer.failed) = 1
  /\ lastSet.by = "tick"

\* C11: every Set a tick issues is for one id of its snapshot not yet
\* served, is addressed to that id and carries the target level; the ids
\* served never leave the snapshot.
C11_TickSetsEachSnapshotId ==
  [][(enforcer.pc = "apply" /\ enforcer'.attempted # enforcer.attempted) =>
       \E id \in enforcer.checkedDevices \ enforcer.attempted :
         /\ enforcer'.attempted = enforcer.attempted \cup {id}
         /\ enforcer'.attempted \subseteq enforcer.checkedDevices
         /\ lastSet' = [by |-> "tick", dev |-> id,
                        level |-> TargetVolumeLevel]]_vars

\* C12: once loadAndApplyDeviceStates has returned, and before any click,
\* the monitored ids are exactly the saved ids that are in the registry; a
\* saved id that is not in the registry reads as unmonitored, and the loop
\* has gone through every saved id.
C12_RestoreOnlyRegistered ==
  (mainPC \notin {"scan", "load", "restore"} /\ TotalToggles = 0) =>
    /\ Monitored = Range(savedDeviceIDs) \cap Range(audioInputDevices)
    /\ \A id \in Range(savedDeviceIDs) \ Range(audioInputDevices) :
         ~Get(deviceStates, id)
    /\ restoreIdx = Len(savedDeviceIDs) + 1
    /\ mu = Unlocked

\* C12 witness: the saved ids were X, which no device has, and then A: the
\* restore skipped X and still checked A.
C12_Witness ==
  /\ mainPC = "listener"
  /\ savedDeviceIDs = <<"X", "A">>
  /\ audioInputDevices = InputDevices
  /\ Monitored = {"A"}
  /\ ~Get(deviceStates, "X")
  /\ restoreSets = 1

\* C13: in a process started after a save, once its restore is over and
\* before any click, the monitored set is the set that was saved, cut down
\* to the ids of the registry; when the saved set was empty the preference
\* is gone, the load yields no id and the restore sets nothing.
C13_SaveLoadRestoreRoundTrip ==
  (lastSaved.any /\ TotalToggles = 0 /\
   mainPC \notin {"scan", "load", "restore"}) =>
    /\ Monitored = lastSaved.ids \cap Range(audioInputDevices)
    /\ lastSaved.ids = {} =>
         (prefs = PrefAbsent /\ savedDeviceIDs = <<>> /\ restoreSets = 0)

\* C13 witness: the last process saved {A, B}; this one found both devices
\* and its restore has checked both.
C13_Witness ==
  /\ lastSaved = [any |-> TRUE, ids |-> {"A", "B"}]
  /\ TotalToggles = 0
  /\ mainPC = "listener"
  /\ audioInputDevices = InputDevices
  /\ Monitored = {"A", "B"}

\* C14: the stored preference is not an array, so loadCheckedDevices fails
\* (the preference stays as it is until the first save).  Then the restore
\* loop never runs and issues no Set, nothing is monitored before the first
\* click, and main goes on: it starts the listener, and by the time the menu
\* is built the enforcer has been started.
C14_LoadFailureStartsEmpty ==
  (prefs = PrefNotArray /\ mainPC \notin {"scan", "load"}) =>
    /\ mainPC \in {"listener", "listener_mute", "enforcer", "ui", "run"}
    /\ savedDeviceIDs = <<>>
    /\ restoreIdx = 1
    /\ restoreSets = 0
    /\ lastSet.by # "restore"
    /\ mu = Unlocked
    /\ TotalToggles = 0 => Monitored = {}
    /\ mainPC \in {"ui", "run"} =>
         (enforcerCancel = "set" /\ enforcer.pc # "none")

\* C14 witness: the load failed, and the program runs with both listeners
\* registered, the enforcer waiting for its ticker, nothing monitored and no
\* Set issued.
C14_Witness ==
  /\ prefs = PrefNotArray
  /\ mainPC = "run"
  /\ listeners = {"volume", "mute"}
  /\ enforcer.pc = "select"
  /\ Monitored = {}
  /\ lastSet = NoSet
  /\ audioInputDevices = InputDevices

\* C15: once a click handler is past its save (at the level query, at the
\* Set, or back waiting after either has returned with whatever outcome),
\* the device's flag is the flipped value the handler computed, which is the
\* flag its toggles call for, and the handler has issued its one Save.
C15_DeviceFailureKeepsToggle ==
  \A id \in Range(InputDevices) :
    (toggles[id] > 0 /\ click[id].pc \in {"get", "set", "wait"}) =>
      /\ Get(deviceStates, id) = click[id].newState
      /\ click[id].newState = ExpectedFlag(id)
      /\ click[id].saves = 1

\* C15 witness: A was toggled on and its Set failed (the volume is still
\* below the target); A is monitored, saved, and its handler waits for the
\* next click.
C15_Witness ==
  /\ click["A"].pc = "wait"
  /\ toggles["A"] = 1
  /\ click["A"].sets = 1
  /\ click["A"].saves = 1
  /\ lastSet.by = "toggle"
  /\ volume < TargetVolumeLevel
  /\ "A" \in Monitored
  /\ "A" \in PersistedIDs

\* The enforcer's lifecycle: Idle until startPeriodicVolumeEnforcer has
\* stored the cancel function and started the goroutine, Running until
\* onExit has called the cancel function, Stopped from then on.
Lifecycle ==
  IF enforcerCancel = "nil" THEN "Idle"
  ELSE IF ~ctxDone THEN "Running" ELSE "Stopped"

\* C16: the lifecycle only moves from Idle to Running and from Running to
\* Stopped; a tick is taken only while Running, and none once Stopped.
C16_LifecycleForwardOnly ==
  [][/\ Lifecycle = "Idle" => Lifecycle' \in {"Idle", "Running"}
     /\ Lifecycle = "Running" => Lifecycle' \in {"Running", "Stopped"}
     /\ Lifecycle = "Stopped" => Lifecycle' = "Stopped"
     /\ ticks' # ticks => Lifecycle = "Running"]_vars

\* C17: after onExit has called the cancel function, calling it once more
\* leaves the context as it is; and as long as no cancel function has been
\* stored (the enforcer was never started) the stop section of onExit leaves
\* the context not cancelled.
C17_StopIdempotent ==
  /\ mainPC \in {"stopping", "exited"} =>
       (ctxDone /\ Cancelled(enforcerCancel, ctxDone) = ctxDone)
  /\ enforcerCancel = "nil" =>
       (~ctxDone /\ Cancelled(enforcerCancel, ctxDone) = ctxDone)

\* C17 witness: onExit has run, the context is cancelled and the enforcer
\* goroutine has returned.
C17_Witness ==
  /\ mainPC = "exited"
  /\ enforcerCancel = "set"
  /\ ctxDone
  /\ enforcer.pc = "stopped"

\* C18: the enforcer stops only between ticks: when it has stopped, its
\* last tick has issued the Set of every device of its snapshot; and a tick
\* under way when the context is cancelled is still a tick under way.
C18_StopOnlyBetweenTicks ==
  /\ enforcer.pc = "stopped" =>
       (enforcer.todo = {} /\ enforcer.attempted = enforcer.checkedDevices)
  /\ enforcer.pc = "apply" =>
       (enforcer.todo # {} /\
        enforcer.attempted = enforcer.checkedDevices \ enforcer.todo)

\* C18 witness: onExit cancelled the context while a tick over two devices
\* had served one of them; the tick is still running.
C18_Witness ==
  /\ ctxDone
  /\ mainPC \in {"stopping", "exited"}
  /\ enforcer.pc = "apply"
  /\ Cardinality(enforcer.checkedDevices) = 2
  /\ Cardinality(enforcer.todo) = 1

\* C19: the step in which goVolumeChangeCallback decides and returns calls
\* setSystemInputLevel not at all: it leaves the last Set, the volume and
\* the notifications as they are, and a reset it decided on is left to a
\* goroutine that has not run yet.
C19_HandlerNeverSetsInline ==
  [][(cb.pc = "go" /\ cb'.pc = "returned") =>
       /\ lastSet' = lastSet
       /\ volume' = volume
       /\ pending' = pending
       /\ cb'.spawned = 1 => corrective' = corrective + 1]_vars

\* C19 witness: the callback has returned after starting a reset, and the
\* reset's Set has not been made yet.
C19_Witness ==
  /\ cb.pc = "returned"
  /\ cb.spawned = 1
  /\ corrective = 1
  /\ lastSet.by # "corrective"
  /\ volume < TargetVolumeLevel

\* C20: a step that calls the audio layer (the Set of the restore, the
\* level query and the Set of a click handler, a Set of a tick, the Set of
\* a reset goroutine) or the preference store (the load at startup, the
\* write of a save) is taken with state.mu held by nobody, so not by the
\* caller.
C20_NoCallUnderLock ==
  [][(\/ restoreSets' # restoreSets
      \/ \E id \in Range(InputDevices) :
           click[id].pc \in {"write", "get", "set"} /\ click'[id] # click[id]
      \/ enforcer'.attempted \ enforcer.attempted # {}
      \/ corrective' < corrective
      \/ mainPC = "load" /\ mainPC' # "load") =>
       mu = Unlocked]_vars

\* Some task is inside an external call: a tick inside a Set, a reset
\* goroutine not through its Set, a click handler inside its save or one of
\* its device calls.
SomeCallPending ==
  \/ enforcer.pc = "apply"
  \/ corrective > 0
  \/ \E id \in Range(InputDevices) : click[id].pc \in {"write", "get", "set"}

\* C21: while calls of other tasks are pending (and, under SpecStalled,
\* never return), a click handler waiting for a click can take it and flip
\* its device, and a callback that has been invoked can reach its decision.
C21_StallIsolated ==
  SomeCallPending =>
    /\ \A id \in Range(InputDevices) :
         (click[id].pc = "wait" /\ mainPC \in {"ui", "run"} /\
          TotalToggles < MaxToggles) => ENABLED Toggle(id)
    /\ cb.pc = "go" => ENABLED GoVolumeChangeCallback

\* C21 witness: the tick's Set for B, the save of B's click handler and a
\* reset goroutine's Set are all stalled; A, which the tick's copy does not
\* hold, has since been flipped on, and a callback has taken its decision.
C21_Witness ==
  /\ enforcer.pc = "apply"
  /\ enforcer.checkedDevices = {"B"}
  /\ enforcer.attempted = {}
  /\ click["B"].pc = "write"
  /\ click["B"].checkedDeviceIDs = <<"B">>
  /\ corrective = 1
  /\ cb.pc = "returned"
  /\ toggles["A"] = 1
  /\ Monitored = {"A", "B"}

\* C22: the step in which a tick takes its copy, and the step in which a
\* save collects its ids, is taken with no writer inside the store (so not
\* while the restore loop is under way), leaves the store as it is, and
\* yields exactly the ids monitored at that instant, each once.
C22_SnapshotIsOneInstant ==
  [][/\ ticks' # ticks =>
          /\ enforcer'.checkedDevices = Monitored
          /\ Monitored' = Monitored
          /\ mu.writer = "none" /\ mainPC # "restore"
     /\ \A id \in Range(InputDevices) :
          (click[id].pc = "save" /\ click'[id].pc = "write") =>
            /\ Range(click'[id].checkedDeviceIDs) = Monitored
            /\ Len(click'[id].checkedDeviceIDs) = Cardinality(Monitored)
            /\ Monitored' = Monitored
            /\ mu.writer = "none" /\ mainPC # "restore"]_vars

\* C22 witness: a tick and the save of A's handler each hold a copy with
\* both devices, taken after B was restored and A toggled on.
C22_Witness ==
  /\ enforcer.pc = "apply"
  /\ enforcer.checkedDevices = {"A", "B"}
  /\ click["A"].pc = "write"
  /\ Range(click["A"].checkedDeviceIDs) = {"A", "B"}
  /\ savedDeviceIDs = <<"B">>
  /\ toggles["A"] = 1

\* The saved ids the restore loop has found in the registry so far.
RestoredPositions ==
  {i \in 1..(restoreIdx - 1) : savedDeviceIDs[i] \in Range(audioInputDevices)}

\* C23: the restore loop goes through the saved ids once, issuing one Set
\* per id it finds in the registry; and as soon as a listener is registered,
\* the enforcer is started, a click handler exists or a click has been
\* taken, the loop is over and its lock is released.
C23_RestoreBeforeEverythingElse ==
  /\ restoreIdx \in 1..(Len(savedDeviceIDs) + 1)
  /\ restoreSets = Cardinality(RestoredPositions)
  /\ (\/ listeners # {}
      \/ enforcerCancel # "nil"
      \/ enforcer.pc # "none"
      \/ TotalToggles > 0
      \/ \E id \in Range(InputDevices) : click[id].pc # "none") =>
       /\ mainPC \notin {"scan", "load", "restore"}
       /\ restoreIdx = Len(savedDeviceIDs) + 1
       /\ mu.writer = "none"

\* C23 witness: the saved ids [X, A] were gone through (one Set, for A),
\* then both listeners were registered, the enforcer was started, the menu
\* was built, and B has been clicked.
C23_Witness ==
  /\ savedDeviceIDs = <<"X", "A">>
  /\ restoreIdx = 3
  /\ restoreSets = 1
  /\ listeners = {"volume", "mute"}
  /\ enforcer.pc = "select"
  /\ mainPC = "run"
  /\ toggles["B"] = 1
  /\ Monitored = {"A", "B"}

\* C24: no step removes a key of state.deviceStates; an entry that exists
\* keeps a boolean value, which a step either leaves or flips.
C24_KeysNeverShrink ==
  [][/\ DOMAIN deviceStates \subseteq DOMAIN deviceStates'
     /\ \A k \in DOMAIN deviceStates :
          deviceStates'[k] \in {deviceStates[k], ~deviceStates[k]}]_vars

\* C24 witness: B was restored as checked and then clicked off; its entry
\* is still there, as false, after a tick and a callback have run.
C24_Witness ==
  /\ "B" \in RestoredIDs
  /\ toggles["B"] = 1
  /\ DOMAIN deviceStates = {"A", "B"}
  /\ deviceStates["B"] = FALSE
  /\ ticks >= 1
  /\ cb.pc = "returned"

\* The volume is below the target while a device is monitored and the
\* enforcer goroutine runs, n ticks having been taken.
DriftedAtTick(n) ==
  /\ Monitored # {}
  /\ volume < TargetVolumeLevel
  /\ ticks = n
  /\ enforcer.pc \in {"select", "apply"}

\* A tick after the n-th has issued a Set with the target level, or has
\* found nothing monitored.
EnforcedAfterTick(n) ==
  /\ ticks > n
  /\ \/ enforcer.checkedDevices = {}
     \/ /\ enforcer.attempted # {}
        /\ lastSet.by = "tick"
        /\ lastSet.level = TargetVolumeLevel

\* C25: as long as the ticker has a firing left (n < MaxTicks), a volume
\* below the target with a device monitored and the enforcer running leads
\* to a Set with the target level issued by a later tick, whatever became
\* of the change notification and of the reset goroutine.
C25_DriftIsReEnforced ==
  \A n \in 0..(MaxTicks - 1) : DriftedAtTick(n) ~> EnforcedAfterTick(n)

\* C25 witness: the volume was changed to 50% from outside, the callback
\* saw it and started a reset that has not made its Set, and a tick has
\* brought the volume back to the target.
C25_Witness ==
  /\ drifts = 1 /\ ~muted
  /\ cb.pc = "returned" /\ cb.volume = 50 /\ ~cb.muted
  /\ corrective = 1
  /\ lastSet.by = "tick"
  /\ volume = TargetVolumeLevel
  /\ Monitored # {}

\* C26: at no time is more than one reset goroutine started and not yet
\* through its Set.
C26_AtMostOneCorrective == corrective <= 1

\* C27: when every click handler is idle again after at least one click,
\* the ids of the stored preference are the ids the store holds as checked.
C27_QuiescentPersistence ==
  (TotalToggles > 0 /\
   \A id \in Range(InputDevices) : click[id].pc \in {"none", "wait"}) =>
    PersistedIDs = Monitored

\* C28: once the stop section of onExit has returned (main is past it), the
\* enforcer takes no further tick.
C28_NoTickAfterStopReturned ==
  [][ticks' # ticks => mainPC \notin {"stopping", "exited"}]_vars

\* C29: every key of state.deviceStates, and so every monitored id, is the
\* id of a device the scan at startup found.
C29_KeysAreRegistered ==
  /\ DOMAIN deviceStates \subseteq Range(audioInputDevices)
  /\ Monitored \subseteq Range(audioInputDevices)

\* C29 witness: the preference named X, which no device has, and A; after
\* the restore, the menu's creation and a click on B the map has the keys A
\* and B and no key X.
C29_Witness ==
  /\ savedDeviceIDs = <<"X", "A">>
  /\ mainPC = "run"
  /\ toggles["B"] >= 1
  /\ DOMAIN deviceStates = {"A", "B"}
  /\ "X" \notin DOMAIN deviceStates
  /\ "A" \in Monitored

\* C30: a device whose menu item exists and has not been clicked yet has an
\* entry, and the entry is true exactly when the restore checked the
\* device: building the menu created the missing entries as false and left
\* the restored ones alone.
C30_MenuKeepsRestoredEntries ==
  \A id \in Range(InputDevices) :
    (click[id].pc = "wait" /\ toggles[id] = 0) =>
      /\ id \in DOMAIN deviceStates
      /\ deviceStates[id] = (id \in RestoredIDs)

\* C30 witness: B was restored as checked and A was not; the menu has both
\* items, no click has been taken, B is still checked and A has an entry
\* that is false.
C30_Witness ==
  /\ savedDeviceIDs = <<"B">>
  /\ mainPC = "ui"
  /\ uiIdx = 3
  /\ TotalToggles = 0
  /\ click["A"].pc = "wait" /\ click["B"].pc = "wait"
  /\ deviceStates = [d \in {"A", "B"} |-> d = "B"]

\* C31: a tick's copy holds no id that is unchecked when the copy is taken
\* (none at all when nothing is checked, and then the tick is over without
\* a Set); and a Set is issued on behalf of an id only by the tick in
\* progress, for an id of its copy.
C31_NoSetForUncheckedAtSnapshot ==
  [][/\ ticks' # ticks =>
          /\ \A id \in Range(InputDevices) :
               ~Get(deviceStates, id) =>
                 id \notin (enforcer'.checkedDevices \cup enforcer'.todo
                              \cup enforcer'.attempted)
          /\ Monitored = {} => (enforcer'.pc = "select" /\ lastSet' = lastSet)
     /\ ticks' = ticks =>
          /\ enforcer'.checkedDevices = enforcer.checkedDevices
          /\ enforcer'.attempted \ enforcer.attempted
               \subseteq enforcer.checkedDevices]_vars

\* C31 witness: A was restored as checked and then clicked off, B was
\* clicked on; the second tick, taken afterwards, has set for B alone.
C31_Witness ==
  /\ "A" \in RestoredIDs
  /\ toggles["A"] = 1
  /\ Monitored = {"B"}
  /\ ticks = 2
  /\ enforcer.pc = "select"
  /\ enforcer.checkedDevices = {"B"}
  /\ enforcer.attempted = {"B"}

\* C32: a notification is handled with the volume as it is when the
\* listener runs; a callback that sees the volume at the target starts no
\* reset; a reset's Set that changes the volume brings it to the target and
\* causes at most one notification; and in every run the reset goroutines
\* make only finitely many Sets.
C32_CorrectionDoesNotFeedItself ==
  /\ [][/\ (cb.pc # "go" /\ cb'.pc = "go") => cb'.volume = volume
        /\ (cb.pc = "go" /\ cb'.pc = "returned" /\
            cb.volume >= TargetVolumeLevel) => corrective' = corrective
        /\ (corrective' < corrective /\ volume' # volume) =>
             (volume' = TargetVolumeLevel /\ pending' <= pending + 1)]_vars
  /\ <>[][corrective' >= corrective]_vars

\* C32 witness: after the one change from outside, a reset's Set brought
\* the volume back; the notification it caused was delivered, the callback
\* saw 100% with a device monitored and started nothing, and nothing is
\* pending any more.
C32_Witness ==
  /\ drifts = 1
  /\ lastSet.by = "corrective"
  /\ volume = TargetVolumeLevel
  /\ cb.pc = "returned" /\ cb.volume = 100 /\ ~cb.muted /\ cb.selected
  /\ cb.spawned = 0
  /\ corrective = 0
  /\ pending = 0

\* C33: registering the change-event listener is all-or-nothing.  Once
\* startVolumeChangeListener has returned without both listeners in place
\* (the start failed), no listener is registered and the listener callback
\* is not entered any more.
C33_FailedStartIsSilent ==
  [][(mainPC \in {"enforcer", "ui", "run"} /\
      listeners # {"volume", "mute"}) =>
        /\ listeners = {}
        /\ ~(cb.pc # "go" /\ cb'.pc = "go")]_vars

TypeOK ==
  /\ DOMAIN deviceStates \subseteq Range(InputDevices)
  /\ mu.writer \in {"none", "main"}
  /\ pending \in Nat
  /\ corrective \in Nat

====
